---- MODULE Spec2Model ----
(***************************************************************************)
(* anton: a terminal memory viewer.  A byte view (MemoryView, lib.rs) and  *)
(* an instruction view (InstructionView, instruction_view.rs) are drawn    *)
(* around a pointer; main.rs hosts the byte view and moves the pointer     *)
(* with the keys h/j/k/l.                                                   *)
(*                                                                         *)
(* Address = u32.  TLC integers are 32-bit signed, so an address is kept   *)
(* as its two 16-bit halves [hi, lo] (value hi * 65536 + lo) and every     *)
(* u32 operation is written on the halves.  Option<T> is a sequence of     *)
(* length at most one: None = <<>>, Some(x) = <<x>>.                       *)
(***************************************************************************)
EXTENDS Integers, Sequences, FiniteSets, TLC

(* ------------------------------ bounds --------------------------------- *)
\* the tallest inner area drawn
MaxHeight == 9
\* the widest hex table drawn holds MaxBucket bytes per row
MaxBucket == 8
\* pointers are explored within Window of the anchor addresses
Window == 8

(* ------------------------------ Option --------------------------------- *)
None == <<>>
Some(x) == <<x>>
IsSome(o) == o # <<>>
Unwrap(o) == o[1]

(* --------------------------- u32 / u16 arithmetic ---------------------- *)
Half == 65536
U16Max == 65535

AddressMAX == [hi |-> 65535, lo |-> 65535]
AddressZero == [hi |-> 0, lo |-> 0]

\* a small natural number as an address
Addr(n) == [hi |-> n \div Half, lo |-> n % Half]

IsAddress(a) == /\ a.hi \in 0..65535
                /\ a.lo \in 0..65535

AddrLe(a, b) == \/ a.hi < b.hi
                \/ (a.hi = b.hi /\ a.lo <= b.lo)

\* the mathematical sum a + n; hi >= 65536 when it does not fit in a u32
RawAdd(a, n) == [hi |-> a.hi + ((a.lo + n) \div Half), lo |-> (a.lo + n) % Half]

\* the mathematical difference a - n; hi < 0 when it is negative
RawSub(a, n) == [hi |-> a.hi + ((a.lo - n) \div Half), lo |-> (a.lo - n) % Half]

checked_add(a, n) == IF RawAdd(a, n).hi >= Half THEN None ELSE Some(RawAdd(a, n))

checked_sub(a, n) == IF RawSub(a, n).hi < 0 THEN None ELSE Some(RawSub(a, n))

saturating_add(a, n) == IF RawAdd(a, n).hi >= Half THEN AddressMAX ELSE RawAdd(a, n)

saturating_sub(a, n) == IF RawSub(a, n).hi < 0 THEN AddressZero ELSE RawSub(a, n)

\* u32 addition in a build without overflow checks
wrapping_add(a, n) == [hi |-> RawAdd(a, n).hi % Half, lo |-> RawAdd(a, n).lo]

\* a % m for a u32 a and 0 < m < 2^15
AddrRem(a, m) == ((a.hi % m) * (Half % m) + a.lo) % m

\* |a - b| for two addresses less than 2^31 apart
abs_diff(a, b) ==
    LET d == (a.hi - b.hi) * Half + (a.lo - b.lo)
    IN  IF d < 0 THEN -d ELSE d

unwrap_or(o, default) == IF IsSome(o) THEN Unwrap(o) ELSE default

\* a u16 product: it overflows when it exceeds u16::MAX
MulOverflows(a, b) == a * b > U16Max
WrappingMul(a, b) == (a * b) % Half

(* ------------------------------ inputs --------------------------------- *)
\* heights of the inner area (after the surrounding block is removed)
Heights == {1, 5, MaxHeight}

\* widths of the hex table (layout.memory_table.width)
Widths == {2, 7, 3 * MaxBucket}

\* main_layout splits the area vertically into [Min(1), Length(4)]: with
\* five rows or more the address column gets height - 4; below that the
\* constraints conflict and the solver's choice is not fixed by the source.
ColumnHeights(height) == IF height >= 5 THEN {height - 4} ELSE 0..height

MemoryLayouts ==
    { [height |-> h, address_column_height |-> c, memory_table_width |-> w] :
        h \in Heights, c \in 0..MaxHeight, w \in Widths } \cap
    { l \in [height : Heights, address_column_height : 0..MaxHeight,
             memory_table_width : Widths] :
        l.address_column_height \in ColumnHeights(l.height) }

\* InstructionView::layout splits horizontally: the column keeps the height
InstructionLayouts ==
    { [height |-> h, address_column_height |-> h, memory_table_width |-> 0] :
        h \in Heights }

NoLayout == [height |-> 0, address_column_height |-> 0, memory_table_width |-> 0]

\* pointers are explored around these addresses
Anchors == {AddressZero, Addr(100), AddressMAX}

InWindow(a) ==
    \E c \in Anchors : /\ AddrLe(saturating_sub(c, Window), a)
                       /\ AddrLe(a, saturating_add(c, Window))

\* bytes a data source may report: None is an unreadable address
Patterns ==
    { << Some(120), Some(86), Some(52), Some(18) >>,
      << None, Some(5), None, None >>,
      << Some(255), Some(128), None, Some(1) >> }

\* MemoryProvider implementations: main.rs's DummyProvider, and sparse
\* memories whose contents repeat a four-byte pattern
MemoryProviders ==
    { [kind |-> "dummy", pattern |-> << >>] } \cup
    { [kind |-> "pattern", pattern |-> p] : p \in Patterns }

\* InstructionProvider implementations
InstructionProviders ==
    { [kind |-> k, pattern |-> << >>] : k \in {"full", "bounded", "sparse"} }

\* size_of::<I>() of the instruction types drawn
UnitSizes == {2, 4}

(* ------------------------------- state --------------------------------- *)
VARIABLES
    widget,             \* which widget the application hosts
    overflow_checks,    \* the build: TRUE panics on integer overflow, FALSE wraps
    provider,           \* the data source handed to the widget
    unit_size,          \* size_of::<I>() of the instruction view
    pointer,            \* MemoryViewState.pointer
    bytes_per_bucket,   \* MemoryViewState.bytes_per_bucket
    beginning_bucket,   \* MemoryViewState.beginning_bucket
    memory_buffer,      \* MemoryViewState.memory_buffer
    i_pointer,          \* InstructionViewState.pointer
    beggining_address,  \* InstructionViewState.beggining_address
    instruction_buffer, \* InstructionViewState.instruction_buffer
    address_column,     \* the address labels drawn by the last render
    memory_table,       \* the hex cells drawn by the last render
    info_bar,           \* the decoded values drawn by the last render
    instruction_table,  \* the instruction rows drawn by the last render
    panicked,           \* "none", or the panic that ended the program
    last_op,            \* the last operation: "init", "render", "rerender",
                        \* a key of run() ("h", "j", "k", "l") or "set"
    last_layout,        \* the layout of the last render
    prev_pointer        \* MemoryViewState.pointer before the last operation

vars == << widget, overflow_checks, provider, unit_size, pointer,
           bytes_per_bucket, beginning_bucket, memory_buffer, i_pointer,
           beggining_address, instruction_buffer, address_column,
           memory_table, info_bar, instruction_table, panicked, last_op,
           last_layout, prev_pointer >>

frame == << address_column, memory_table, info_bar, instruction_table >>
memory_state == << pointer, bytes_per_bucket, beginning_bucket, memory_buffer >>
instruction_state == << i_pointer, beggining_address, instruction_buffer >>
setup == << widget, overflow_checks, provider, unit_size >>

\* the MemoryViewState as one record
MemoryViewState ==
    [pointer |-> pointer, bytes_per_bucket |-> bytes_per_bucket,
     beginning_bucket |-> beginning_bucket, memory_buffer |-> memory_buffer]

\* the InstructionViewState as one record
InstructionViewState ==
    [pointer |-> i_pointer, beggining_address |-> beggining_address,
     instruction_buffer |-> instruction_buffer]

(* ------------------------------ byte view ------------------------------ *)
\* MemoryViewState::pointer_index
pointer_index(state) == abs_diff(state.pointer, state.beginning_bucket)

\* DummyProvider: *value = pointer.checked_add(i as u32).map(|x| x as u8)
DummyByte(start, i) ==
    IF IsSome(checked_add(start, i))
    THEN Some(Unwrap(checked_add(start, i)).lo % 256)
    ELSE None

\* a sparse memory: the byte at address a is pattern[a mod 4], None past MAX
PatternByte(pattern, start, i) ==
    IF IsSome(checked_add(start, i))
    THEN pattern[(Unwrap(checked_add(start, i)).lo % 4) + 1]
    ELSE None

\* MemoryProvider::read_to_buf: fills buf with the values from start on
read_to_buf(prov, start, buf) ==
    [ k \in 1..Len(buf) |->
        IF prov.kind = "dummy"
        THEN DummyByte(start, k - 1)
        ELSE PatternByte(prov.pattern, start, k - 1) ]

\* memory_buffer.clear(); memory_buffer.resize(value_count, None)
ClearAndResize(buf, value_count) == [ k \in 1..value_count |-> None ]

\* layout.memory_table.width / 3
BytesPerBucket(width) == width \div 3

\* state.pointer - state.pointer % state.bytes_per_bucket as Address
PointedBucket(p, bpb) == RawSub(p, AddrRem(p, bpb))

\* (state.bytes_per_bucket * layout.address_column.height / 2) as Address,
\* a u16 expression evaluated left to right
CenterOffset(bpb, height) == WrappingMul(bpb, height) \div 2

\* the update with the bucket size stored by the first render only
UpdateViewportCached(state, layout, checks) ==
    LET bpb == IF state.bytes_per_bucket = 0
               THEN BytesPerBucket(layout.memory_table_width)
               ELSE state.bytes_per_bucket
        s1  == [state EXCEPT !.bytes_per_bucket = bpb]
    IN  IF bpb = 0
        THEN [state |-> s1, panic |-> "rem_by_zero"]
        ELSE [state |-> [s1 EXCEPT !.beginning_bucket =
                            saturating_sub(PointedBucket(state.pointer, bpb),
                                CenterOffset(bpb, layout.address_column_height))],
              panic |-> "none"]

\* the update with the pointer aligned to the bucket size of the frame
\* before (when there was one)
UpdateViewportStale(state, layout, checks) ==
    LET bpb == BytesPerBucket(layout.memory_table_width)
        old == IF state.bytes_per_bucket = 0 THEN bpb ELSE state.bytes_per_bucket
        s1  == [state EXCEPT !.bytes_per_bucket = bpb]
    IN  IF bpb = 0
        THEN [state |-> s1, panic |-> "rem_by_zero"]
        ELSE [state |-> [s1 EXCEPT !.beginning_bucket =
                            saturating_sub(PointedBucket(state.pointer, old),
                                CenterOffset(bpb, layout.address_column_height))],
              panic |-> "none"]

\* the state update at the head of MemoryView::render; panic names the
\* panic that interrupts it
UpdateViewport(state, layout, checks) ==
    LET bpb == BytesPerBucket(layout.memory_table_width)
        s1  == [state EXCEPT !.bytes_per_bucket = bpb]
    IN  IF bpb = 0
        THEN [state |-> s1, panic |-> "rem_by_zero"]
        ELSE IF checks /\ MulOverflows(bpb, layout.address_column_height)
        THEN [state |-> s1, panic |-> "mul_overflow"]
        ELSE [state |-> [s1 EXCEPT !.beginning_bucket =
                            saturating_sub(PointedBucket(state.pointer, bpb),
                                CenterOffset(bpb, layout.address_column_height))],
              panic |-> "none"]

\* value_count, clear, resize and read_to_buf of MemoryView::render
FillBuffer(state, layout, prov) ==
    [state EXCEPT !.memory_buffer =
        read_to_buf(prov, state.beginning_bucket,
            ClearAndResize(state.memory_buffer,
                           state.bytes_per_bucket * layout.height))]

\* the label computed with an unchecked, wrapping addition
AddressLabelUnchecked(state, index) ==
    Some(wrapping_add(state.beginning_bucket,
                      WrappingMul(state.bytes_per_bucket, index)))

\* MemoryView::render_address_column: one label per row of the column,
\* beginning_bucket.checked_add((bytes_per_bucket * index) as Address)
AddressLabel(state, index) ==
    checked_add(state.beginning_bucket, WrappingMul(state.bytes_per_bucket, index))

render_address_column(state, height, checks) ==
    IF checks /\ \E index \in 0..(height - 1) :
                    MulOverflows(state.bytes_per_bucket, index)
    THEN [rows |-> << >>, panic |-> "mul_overflow"]
    ELSE [rows |-> [ r \in 1..height |-> AddressLabel(state, r - 1) ],
          panic |-> "none"]

\* state.beginning_bucket + i as u32, in a build that wraps on overflow
CellAddress(state, i) == wrapping_add(state.beginning_bucket, i)

\* the cell of buffer entry i (from 0) in MemoryView::render_memory_table
MemoryCell(state, i) ==
    [address     |-> CellAddress(state, i),
     byte        |-> state.memory_buffer[i + 1],
     underlined  |-> (CellAddress(state, i).lo \div 4) % 2 = 0,
     highlighted |-> i = pointer_index(state)]

\* MemoryView::render_memory_table: Table::new collects every row and cell,
\* so the cell of every buffer entry is computed
render_memory_table(state, checks) ==
    IF checks /\ \E i \in 0..(Len(state.memory_buffer) - 1) :
                    ~IsSome(checked_add(state.beginning_bucket, i))
    THEN [cells |-> << >>, panic |-> "add_overflow"]
    ELSE [cells |-> [ k \in 1..Len(state.memory_buffer) |-> MemoryCell(state, k - 1) ],
          panic |-> "none"]

\* the bytes read most significant first
RECURSIVE from_be_bytes(_)
from_be_bytes(bytes) ==
    IF bytes = << >> THEN 0
    ELSE bytes[Len(bytes)] + 256 * from_be_bytes(SubSeq(bytes, 1, Len(bytes) - 1))

\* uN::from_le_bytes on a sequence of byte values
RECURSIVE from_le_bytes(_)
from_le_bytes(bytes) ==
    IF bytes = << >> THEN 0 ELSE Head(bytes) + 256 * from_le_bytes(Tail(bytes))

\* u32::from_le_bytes([a, b, c, d]), as the two halves of the u32
u32_from_le_bytes(a, b, c, d) ==
    [hi |-> from_le_bytes(<< c, d >>), lo |-> from_le_bytes(<< a, b >>)]

\* the casts `as i8`, `as i16`, `as i32`
as_i8(x) == IF x >= 128 THEN x - 256 ELSE x
as_i16(x) == IF x >= 32768 THEN x - 65536 ELSE x
as_i32(x) == as_i16(x.hi) * Half + x.lo

\* match bytes[..2] { [Some(a), Some(b)] => Some(u16::from_le_bytes([a, b])), _ => None }
DecodeU16(bytes) ==
    IF IsSome(bytes[1]) /\ IsSome(bytes[2])
    THEN Some(from_le_bytes(<< Unwrap(bytes[1]), Unwrap(bytes[2]) >>))
    ELSE None

\* match bytes[..] { [Some(a), Some(b), Some(c), Some(d)] => Some(u32::from_le_bytes(..)), _ => None }
DecodeU32(bytes) ==
    IF \A k \in 1..4 : IsSome(bytes[k])
    THEN Some(u32_from_le_bytes(Unwrap(bytes[1]), Unwrap(bytes[2]),
                                Unwrap(bytes[3]), Unwrap(bytes[4])))
    ELSE None

\* as_u16.map(|x| x as i16)
MapI16(o) == IF IsSome(o) THEN Some(as_i16(Unwrap(o))) ELSE None

\* as_u32.map(|x| x as i32)
MapI32(o) == IF IsSome(o) THEN Some(as_i32(Unwrap(o))) ELSE None

\* MemoryView::render_info_bar: the slice of four entries at the pointer,
\* the unwrap of the pointer's byte, and the decoded values.  as_f32 is kept
\* as the 32 bits f32::from_le_bytes reinterprets.
render_info_bar(state) ==
    LET idx == pointer_index(state)
    IN  IF idx + 4 > Len(state.memory_buffer)
        THEN [info |-> None, panic |-> "slice_index"]
        ELSE LET bytes == SubSeq(state.memory_buffer, idx + 1, idx + 4)
             IN  IF ~IsSome(state.memory_buffer[idx + 1])
                 THEN [info |-> None, panic |-> "unwrap_none"]
                 ELSE [info |-> Some(
                          [as_u8  |-> Unwrap(state.memory_buffer[idx + 1]),
                           as_i8  |-> as_i8(Unwrap(state.memory_buffer[idx + 1])),
                           as_u16 |-> DecodeU16(bytes),
                           as_i16 |-> MapI16(DecodeU16(bytes)),
                           as_u32 |-> DecodeU32(bytes),
                           as_i32 |-> MapI32(DecodeU32(bytes)),
                           as_f32 |-> DecodeU32(bytes),
                           selected |-> state.pointer]),
                       panic |-> "none"]

\* MemoryView::render as a function of the state before it: the state after
\* it, what was drawn, and the panic that interrupted it ("none": completed)
MemoryViewRender(state, layout, prov, checks) ==
    LET up  == UpdateViewport(state, layout, checks)
        st  == FillBuffer(up.state, layout, prov)
        col == render_address_column(st, layout.address_column_height, checks)
        tab == render_memory_table(st, checks)
        bar == render_info_bar(st)
        blank == [address_column |-> << >>, memory_table |-> << >>, info_bar |-> None]
    IN  IF up.panic # "none"
        THEN [state |-> up.state, panic |-> up.panic, drawn |-> blank]
        ELSE IF col.panic # "none"
        THEN [state |-> st, panic |-> col.panic, drawn |-> blank]
        ELSE IF tab.panic # "none"
        THEN [state |-> st, panic |-> tab.panic,
              drawn |-> [blank EXCEPT !.address_column = col.rows]]
        ELSE [state |-> st, panic |-> bar.panic,
              drawn |-> [address_column |-> col.rows, memory_table |-> tab.cells,
                         info_bar |-> bar.info]]

(* --------------------------- instruction view -------------------------- *)
\* std::mem::size_of::<Address>()
AddressSize == 4

\* InstructionProvider::read_to_buf: entry i holds the instruction at
\* start + unit * i.  "full" reads everything, "bounded" everything up to
\* Address::MAX, "sparse" leaves every third word unreadable.
InstructionUnit(prov, unit, start, i) ==
    LET a == checked_add(start, unit * i)
    IN  IF prov.kind = "full" THEN Some("instr")
        ELSE IF ~IsSome(a) THEN None
        ELSE IF prov.kind = "sparse" /\ (Unwrap(a).lo \div 4) % 3 = 0 THEN None
        ELSE Some("instr")

instruction_read_to_buf(prov, unit, start, buf) ==
    [ k \in 1..Len(buf) |-> InstructionUnit(prov, unit, start, k - 1) ]

\* pointer.saturating_sub((layout.address_column.height / 2) as Address * 4)
BeginningAddress(p, height) == saturating_sub(p, (height \div 2) * 4)

\* the state update at the head of InstructionView::render
UpdateInstructions(state, layout, prov, unit) ==
    [state EXCEPT
        !.beggining_address = BeginningAddress(state.pointer, layout.address_column_height),
        !.instruction_buffer =
            instruction_read_to_buf(prov, unit,
                BeginningAddress(state.pointer, layout.address_column_height),
                ClearAndResize(state.instruction_buffer, layout.height))]

\* InstructionView::render_address_column:
\* beggining_address.checked_add((size_of::<Address>() * index) as Address)
InstructionLabel(state, index) ==
    checked_add(state.beggining_address, AddressSize * index)

\* the prefix of a row: ">" on the pointer, " " elsewhere
Prefix(current, p) == IF current = p THEN ">" ELSE " "

\* the loop of InstructionView::render_instruction_table from entry k on:
\* a missing unit pushes the placeholder row and continues without advancing
\* current; a present one compares current with the pointer, then advances it
RECURSIVE InstructionRows(_, _, _, _, _)
InstructionRows(state, k, current, unit, checks) ==
    IF k > Len(state.instruction_buffer)
    THEN [rows |-> << >>, panic |-> "none"]
    ELSE IF ~IsSome(state.instruction_buffer[k])
    THEN LET rest == InstructionRows(state, k + 1, current, unit, checks)
         IN  [rows  |-> << [prefix |-> "--", current |-> None] >> \o rest.rows,
              panic |-> rest.panic]
    ELSE IF checks /\ ~IsSome(checked_add(current, unit))
    THEN [rows |-> << >>, panic |-> "add_overflow"]
    ELSE LET rest == InstructionRows(state, k + 1, wrapping_add(current, unit),
                                     unit, checks)
         IN  [rows  |-> << [prefix  |-> Prefix(current, state.pointer),
                            current |-> Some(current)] >> \o rest.rows,
              panic |-> rest.panic]

\* InstructionView::render as a function of the state before it
InstructionViewRender(state, layout, prov, unit, checks) ==
    LET st  == UpdateInstructions(state, layout, prov, unit)
        col == [ r \in 1..layout.address_column_height |-> InstructionLabel(st, r - 1) ]
        tab == InstructionRows(st, 1, st.beggining_address, unit, checks)
    IN  [state |-> st, panic |-> tab.panic,
         drawn |-> [address_column |-> col,
                    instruction_table |-> IF tab.panic = "none" THEN tab.rows ELSE << >>]]

(* ------------------------------ behaviour ------------------------------ *)
InstructionPointers ==
    { AddressZero, Addr(4), Addr(8), Addr(100), Addr(102),
      RawSub(AddressMAX, 11), RawSub(AddressMAX, 3), AddressMAX }

\* MemoryViewState::new(pointer) / InstructionViewState::new(pointer)
Init ==
    /\ widget \in {"memory", "instruction"}
    /\ overflow_checks \in BOOLEAN
    /\ provider \in (IF widget = "memory" THEN MemoryProviders ELSE InstructionProviders)
    /\ unit_size \in (IF widget = "memory" THEN {1} ELSE UnitSizes)
    /\ pointer \in (IF widget = "memory" THEN Anchors ELSE {AddressZero})
    /\ bytes_per_bucket = 0
    /\ beginning_bucket = AddressZero
    /\ memory_buffer = << >>
    /\ i_pointer \in (IF widget = "memory" THEN {AddressZero} ELSE InstructionPointers)
    /\ beggining_address = AddressZero
    /\ instruction_buffer = << >>
    /\ address_column = << >>
    /\ memory_table = << >>
    /\ info_bar = None
    /\ instruction_table = << >>
    /\ panicked = "none"
    /\ last_op = "init"
    /\ last_layout = NoLayout
    /\ prev_pointer = pointer

Keys == {"h", "j", "k", "l"}
Renders == {"render", "rerender"}

\* what last_op becomes on a render: "rerender" when the render before it
\* had the same layout and nothing happened in between
RenderOp(layout) ==
    IF last_op \in Renders /\ last_layout = layout
    THEN "rerender" ELSE "render"

\* terminal.draw(..) in run(): frame.render_stateful_widget(memory_view, ..)
Render(layout) ==
    /\ widget = "memory"
    /\ panicked = "none"
    /\ LET r == MemoryViewRender(MemoryViewState, layout, provider, overflow_checks)
       IN  /\ pointer' = r.state.pointer
           /\ bytes_per_bucket' = r.state.bytes_per_bucket
           /\ beginning_bucket' = r.state.beginning_bucket
           /\ memory_buffer' = r.state.memory_buffer
           /\ address_column' = r.drawn.address_column
           /\ memory_table' = r.drawn.memory_table
           /\ info_bar' = r.drawn.info_bar
           /\ panicked' = r.panic
    /\ last_op' = RenderOp(layout)
    /\ last_layout' = layout
    /\ prev_pointer' = pointer
    /\ UNCHANGED << setup, instruction_state, instruction_table >>

\* a key handler of run() that sets the pointer to target; run() draws a
\* frame between two polls of the keyboard, so at most one key is handled
\* between two renders.  A key before the first render is what a host that
\* polls before it draws does with a fresh MemoryViewState.
MovePointer(key, target) ==
    /\ widget = "memory"
    /\ panicked = "none"
    /\ last_op \notin Keys
    /\ InWindow(target)
    /\ pointer' = target
    /\ last_op' = key
    /\ prev_pointer' = pointer
    /\ UNCHANGED << setup, bytes_per_bucket, beginning_bucket, memory_buffer,
                    instruction_state, frame, panicked, last_layout >>

\* state.bytes_per_bucket()
bytes_per_bucket_getter(state) == state.bytes_per_bucket

\* KeyCode::Char('j'): pointer.checked_add(bytes_per_bucket() as u32).unwrap_or(pointer)
StepForwardRowTarget(state) ==
    unwrap_or(checked_add(state.pointer, bytes_per_bucket_getter(state)), state.pointer)

\* KeyCode::Char('k'): pointer.checked_sub(bytes_per_bucket() as u32).unwrap_or(pointer)
StepBackwardRowTarget(state) ==
    unwrap_or(checked_sub(state.pointer, bytes_per_bucket_getter(state)), state.pointer)

\* the forward byte step with a wrapping addition
StepForwardByteWrapping(state) == wrapping_add(state.pointer, 1)

\* KeyCode::Char('l'): pointer.saturating_add(1)
StepForwardByteTarget(state) == saturating_add(state.pointer, 1)

\* KeyCode::Char('h'): pointer.saturating_sub(1)
StepBackwardByteTarget(state) == saturating_sub(state.pointer, 1)

KeyJ == MovePointer("j", StepForwardRowTarget(MemoryViewState))
KeyK == MovePointer("k", StepBackwardRowTarget(MemoryViewState))
KeyL == MovePointer("l", StepForwardByteTarget(MemoryViewState))
KeyH == MovePointer("h", StepBackwardByteTarget(MemoryViewState))

\* InstructionView::render, called by the host of the instruction view
InstructionRender(layout) ==
    /\ widget = "instruction"
    /\ panicked = "none"
    /\ LET r == InstructionViewRender(InstructionViewState, layout, provider,
                                      unit_size, overflow_checks)
       IN  /\ i_pointer' = r.state.pointer
           /\ beggining_address' = r.state.beggining_address
           /\ instruction_buffer' = r.state.instruction_buffer
           /\ address_column' = r.drawn.address_column
           /\ instruction_table' = r.drawn.instruction_table
           /\ panicked' = r.panic
    /\ last_op' = RenderOp(layout)
    /\ last_layout' = layout
    /\ UNCHANGED << setup, memory_state, memory_table, info_bar, prev_pointer >>

\* the host assigns the public field InstructionViewState.pointer
SetInstructionPointer(p) ==
    /\ widget = "instruction"
    /\ panicked = "none"
    /\ i_pointer' = p
    /\ last_op' = "set"
    /\ UNCHANGED << setup, memory_state, beggining_address, instruction_buffer,
                    frame, panicked, last_layout, prev_pointer >>

\* KeyCode::Char('q') ends run() and every other key is ignored: neither
\* changes the state, so neither is an action here
Next ==
    \/ \E layout \in MemoryLayouts : Render(layout)
    \/ KeyJ
    \/ KeyK
    \/ KeyL
    \/ KeyH
    \/ \E layout \in InstructionLayouts : InstructionRender(layout)
    \/ \E p \in InstructionPointers : SetInstructionPointer(p)

Spec == Init /\ [][Next]_vars

(* ------------------------------- claims -------------------------------- *)
\* the last operation was a render of the byte view / the instruction view
MemoryRendered == widget = "memory" /\ last_op \in Renders
InstructionRendered == widget = "instruction" /\ last_op \in Renders

\* the bucket size and the number of visible rows the last render was given
LastBucket == last_layout.memory_table_width \div 3
LastRows == last_layout.address_column_height

\* the last byte-view render got as far as storing its viewport
ViewportStored == MemoryRendered /\ panicked \notin {"rem_by_zero", "mul_overflow"}

\* C1: a byte-view render whose hex table is narrower than 3 columns
\* (bucket size 0) completes without panicking.
C1_NarrowRenderCompletes ==
    (MemoryRendered /\ last_layout.memory_table_width < 3) => panicked = "none"

\* C2: after a byte-view render with bucket size B >= 1 and H visible rows,
\* beginning_bucket = max(0, (P - P mod B) - B * floor(H / 2)), a multiple
\* of B.
C2_BeginningBucketCentered ==
    (ViewportStored /\ LastBucket >= 1) =>
        /\ beginning_bucket =
              saturating_sub(RawSub(pointer, AddrRem(pointer, LastBucket)),
                             LastBucket * (LastRows \div 2))
        /\ AddrRem(beginning_bucket, LastBucket) = 0

\* the pointer's bucket and the offset the render subtracted from it
LastPointedBucket == RawSub(pointer, AddrRem(pointer, LastBucket))
LastSaturated ==
    RawSub(LastPointedBucket, (LastBucket * LastRows) \div 2).hi < 0

\* C3: after a byte-view render with H >= 1 visible rows, when the
\* subtraction did not saturate, beginning_bucket <= pointed_bucket <=
\* beginning_bucket + bucket_size * (H - 1); when it saturated,
\* beginning_bucket = 0.
C3_PointerRowVisible ==
    (ViewportStored /\ LastBucket >= 1 /\ LastRows >= 1) =>
        IF LastSaturated
        THEN beginning_bucket = AddressZero
        ELSE /\ AddrLe(beginning_bucket, LastPointedBucket)
             /\ AddrLe(LastPointedBucket,
                       RawAdd(beginning_bucket, LastBucket * (LastRows - 1)))

\* the number of present units before entry k of the instruction buffer
RECURSIVE PresentBefore(_)
PresentBefore(k) ==
    IF k <= 1 THEN 0
    ELSE PresentBefore(k - 1) + (IF IsSome(instruction_buffer[k - 1]) THEN 1 ELSE 0)

\* C4: no address computed during a render of either view wraps or exceeds
\* Address::MAX: the render does not stop on an arithmetic overflow, every
\* row label is the exact sum or None, every cell address and every running
\* instruction address is the exact sum.
C4_NoAddressOverflow ==
    /\ (MemoryRendered \/ InstructionRendered) =>
            panicked \notin {"add_overflow", "mul_overflow"}
    /\ (MemoryRendered /\ panicked = "none") =>
        /\ \A r \in DOMAIN address_column :
              address_column[r] =
                  checked_add(beginning_bucket, bytes_per_bucket * (r - 1))
        /\ \A k \in DOMAIN memory_table :
              memory_table[k].address = RawAdd(beginning_bucket, k - 1)
    /\ (InstructionRendered /\ panicked = "none") =>
        /\ \A r \in DOMAIN address_column :
              address_column[r] = checked_add(beggining_address, 4 * (r - 1))
        /\ \A k \in DOMAIN instruction_table :
              IsSome(instruction_table[k].current) =>
                  Unwrap(instruction_table[k].current) =
                      RawAdd(beggining_address, unit_size * PresentBefore(k))

\* the byte-view render reached the info bar with the pointer's window
\* inside the buffer
WindowRead ==
    /\ MemoryRendered
    /\ panicked \in {"none", "unwrap_none"}
    /\ abs_diff(pointer, beginning_bucket) + 4 <= Len(memory_buffer)

\* the four entries at the pointer
Window4 ==
    SubSeq(memory_buffer, abs_diff(pointer, beginning_bucket) + 1,
           abs_diff(pointer, beginning_bucket) + 4)

\* C5: when the data source reports the byte at the pointer as None, the
\* render completes (the missing byte is shown as a placeholder).
C5_MissingPointerByteRenders ==
    (WindowRead /\ ~IsSome(Window4[1])) => panicked = "none"

\* the values the info bar shows
Info == Unwrap(info_bar)

\* x is the two's-complement reading of the 16 bits of u
SameBits16(x, u) == /\ x \in (-32768)..32767
                    /\ (x - u) % 65536 = 0

\* x is the two's-complement reading of the 32 bits of the u32 u
SameBits32(x, u) == /\ (x \div 65536) \in (-32768)..32767
                    /\ (x \div 65536) % 65536 = u.hi
                    /\ x % 65536 = u.lo

\* C6: for the four entries w at the pointer: u16/i16 are shown exactly
\* when w[1] and w[2] are present, u32/i32/f32 exactly when all four are;
\* u16 = b0 + 256*b1 and u32 = b0 + 256*b1 + 65536*b2 + 16777216*b3
\* (little-endian); i16/i32 are the two's-complement reading of the same
\* bits; nothing is shown for a missing byte.
C6_LittleEndianDecode ==
    WindowRead =>
        LET w == Window4
            b(k) == Unwrap(w[k])
        IN  IF ~IsSome(info_bar)
            THEN ~IsSome(w[1])
            ELSE /\ IsSome(w[1]) /\ Info.as_u8 = b(1)
                 /\ IsSome(Info.as_u16) <=> (IsSome(w[1]) /\ IsSome(w[2]))
                 /\ IsSome(Info.as_i16) <=> IsSome(Info.as_u16)
                 /\ IsSome(Info.as_u32) <=> (\A k \in 1..4 : IsSome(w[k]))
                 /\ IsSome(Info.as_i32) <=> IsSome(Info.as_u32)
                 /\ IsSome(Info.as_f32) <=> IsSome(Info.as_u32)
                 /\ IsSome(Info.as_u16) =>
                        /\ Unwrap(Info.as_u16) = b(1) + 256 * b(2)
                        /\ SameBits16(Unwrap(Info.as_i16), Unwrap(Info.as_u16))
                 /\ IsSome(Info.as_u32) =>
                        /\ Unwrap(Info.as_u32).lo = b(1) + 256 * b(2)
                        /\ Unwrap(Info.as_u32).hi = b(3) + 256 * b(4)
                        /\ SameBits32(Unwrap(Info.as_i32), Unwrap(Info.as_u32))
                        /\ Unwrap(Info.as_f32) = Unwrap(Info.as_u32)

\* the window [0x78, 0x56, 0x34, 0x12] was decoded as 0x12345678
C6_Witness ==
    /\ WindowRead
    /\ Window4 = << Some(120), Some(86), Some(52), Some(18) >>
    /\ IsSome(info_bar)
    /\ Info.as_u32 = Some([hi |-> 4660, lo |-> 22136])
    /\ Info.as_u16 = Some(22136)

\* a window whose third byte is missing shows u16 and no u32
C6_WitnessPartial ==
    /\ WindowRead
    /\ IsSome(info_bar)
    /\ IsSome(Window4[2]) /\ ~IsSome(Window4[3])
    /\ IsSome(Info.as_u16) /\ Unwrap(Info.as_i16) < 0
    /\ ~IsSome(Info.as_u32)

\* C7: the pointer is always a valid address and no step wraps it around:
\* a byte step moves it by one towards its direction or, at 0 (backward) or
\* Address::MAX (forward), leaves it there; a row step whose target would
\* fall below 0 or above Address::MAX leaves it unchanged.
C7_StepsNeverWrap ==
    /\ IsAddress(pointer)
    /\ last_op = "h" =>
          pointer = (IF prev_pointer = AddressZero THEN AddressZero
                     ELSE RawSub(prev_pointer, 1))
    /\ last_op = "l" =>
          pointer = (IF prev_pointer = AddressMAX THEN AddressMAX
                     ELSE RawAdd(prev_pointer, 1))
    /\ last_op = "j" =>
          /\ AddrLe(prev_pointer, pointer)
          /\ RawAdd(prev_pointer, bytes_per_bucket).hi >= Half => pointer = prev_pointer
    /\ last_op = "k" =>
          /\ AddrLe(pointer, prev_pointer)
          /\ RawSub(prev_pointer, bytes_per_bucket).hi < 0 => pointer = prev_pointer

\* a forward row step at the top of the address space was refused
C7_Witness ==
    /\ last_op = "j"
    /\ bytes_per_bucket > 1
    /\ RawAdd(prev_pointer, bytes_per_bucket).hi >= Half
    /\ pointer = prev_pointer

\* C8: an unclamped row step moves the pointer by exactly the bucket size
\* of the most recent render (0 before the first render, which leaves the
\* pointer unchanged).
C8_RowStepUsesLastRender ==
    /\ (last_op = "j" /\ RawAdd(prev_pointer, LastBucket).hi < Half) =>
            pointer = RawAdd(prev_pointer, LastBucket)
    /\ (last_op = "k" /\ RawSub(prev_pointer, LastBucket).hi >= 0) =>
            pointer = RawSub(prev_pointer, LastBucket)
    /\ (last_op \in {"j", "k"} /\ last_layout = NoLayout) => pointer = prev_pointer

\* a row step moved the pointer by the bucket size 2 of the last render
C8_Witness ==
    /\ last_op = "j"
    /\ LastBucket = 2
    /\ pointer = RawAdd(prev_pointer, 2)

\* C9: a render that repeats the render before it (same pointer, layout
\* and data source) and completes leaves the view state as the first
\* render left it; no render changes the pointer.
C9_RenderIdempotent ==
    [][ /\ last_op' \in Renders =>
              /\ pointer' = pointer
              /\ i_pointer' = i_pointer
        /\ (last_op \in Renders /\ last_op' = "rerender" /\ panicked' = "none") =>
              /\ bytes_per_bucket' = bytes_per_bucket
              /\ beginning_bucket' = beginning_bucket
              /\ memory_buffer' = memory_buffer
              /\ beggining_address' = beggining_address
              /\ instruction_buffer' = instruction_buffer ]_vars

\* a byte-view render was repeated and completed
C9_Witness ==
    /\ widget = "memory"
    /\ last_op = "rerender"
    /\ panicked = "none"
    /\ bytes_per_bucket = 2
    /\ Len(memory_buffer) = 2 * last_layout.height

\* C10: in an instruction-view render, the marker ">" appears only on the
\* row whose address label equals the pointer.
C10_MarkerOnPointerRow ==
    (InstructionRendered /\ panicked = "none") =>
        \A r \in DOMAIN instruction_table :
            instruction_table[r].prefix = ">" =>
                /\ r \in DOMAIN address_column
                /\ address_column[r] = Some(i_pointer)

\* C11: a byte-view render never indexes the memory buffer past its bound:
\* the four-entry window at the pointer's index lies inside the buffer of
\* bucket_size * area height entries.
C11_WindowInsideBuffer ==
    ViewportStored =>
        /\ Len(memory_buffer) = LastBucket * last_layout.height
        /\ abs_diff(pointer, beginning_bucket) + 4 <= Len(memory_buffer)

\* the exact address of row r (from 0) of the last byte-view render
RowAddress(r) == RawAdd(beginning_bucket, LastBucket * r)

\* C12: in a byte-view render the label of row r (0 <= r < visible rows) is
\* beginning_bucket + bucket_size * r when that sum is at most Address::MAX
\* and the dash placeholder (None) otherwise; labels of consecutive rows
\* that are no placeholders differ by bucket_size; the label of a row is the
\* address of the first byte cell of that row.
C12_RowLabels ==
    ViewportStored =>
        /\ Len(address_column) = LastRows
        /\ \A r \in 0..(LastRows - 1) :
              address_column[r + 1] =
                  (IF RowAddress(r).hi < Half THEN Some(RowAddress(r)) ELSE None)
        /\ \A r \in 1..(LastRows - 1) :
              (IsSome(address_column[r]) /\ IsSome(address_column[r + 1])) =>
                  Unwrap(address_column[r + 1]) =
                      RawAdd(Unwrap(address_column[r]), bytes_per_bucket)
        /\ \A r \in 0..(LastRows - 1) :
              (IsSome(address_column[r + 1]) /\
               (r * bytes_per_bucket + 1) \in DOMAIN memory_table) =>
                  memory_table[r * bytes_per_bucket + 1].address =
                      Unwrap(address_column[r + 1])

\* a completed render at the top of the address space: the first rows are
\* labelled, the last row shows the placeholder, the cells are drawn
C12_Witness ==
    /\ MemoryRendered
    /\ panicked = "none"
    /\ bytes_per_bucket >= 2
    /\ Len(address_column) >= 3
    /\ IsSome(address_column[2])
    /\ ~IsSome(address_column[Len(address_column)])
    /\ Len(memory_table) = Len(memory_buffer)

\* the window of C11 is inside the buffer whenever the area has five rows
\* or more
WindowInsideTallBuffer ==
    (ViewportStored /\ last_layout.height >= 5) =>
        abs_diff(pointer, beginning_bucket) + 4 <= Len(memory_buffer)

====
